---- MODULE Spec2Model ----
(***************************************************************************)
(* Model of upmain.c: a light-sensor task appending ADC samples to a       *)
(* circular log, a button interrupt handler with a tick-based debounce     *)
(* giving a binary semaphore, and a logger task which, on each semaphore   *)
(* take, suspends the sensor task, copies the log under a timed mutex,     *)
(* resumes the sensor task and prints statistics of the copy.              *)
(*                                                                         *)
(* Scheduling follows app_main: both tasks are pinned to core 1, the       *)
(* logger at priority 3 and the sensor at priority 2, so the sensor task   *)
(* executes only while the logger is blocked; the interrupt handler and    *)
(* the tick preempt both.                                                  *)
(***************************************************************************)
EXTENDS Integers, Sequences, FiniteSets

\* ---------------------------------------------------------------- constants
LOG_SIZE == 50
LIGHT_THRESHOLD == 3000
DEBOUNCE_MS == 50
\* 1000 / configTICK_RATE_HZ; the tick rate of the build is the ESP-IDF
\* default, 100 Hz (the source does not set it).
portTICK_PERIOD_MS == 10
\* ADC_WIDTH_BIT_12: adc1_get_raw returns 0..4095
ADC_MAX == 4095
\* largest value of a uint16_t
UINT16_MAX == 65535

\* ------------------------------------------------------------------- bounds
\* Width of TickType_t in the model (32 in the build).
TickBits == 7
\* Sensor reads explored by Spec (the log wraps after LOG_SIZE appends).
MaxReads == 60
\* Clock ticks explored by Spec (presses can be accepted at ticks 5 and 10).
MaxTick == 10
\* Sensor reads and clock ticks explored by SpecEvent (three presses can be
\* accepted within 15 ticks) and by FairSpec (two presses).
EvReads == 2
EvTicks == 15
FairReads == 2
FairTicks == 10
\* Sensor reads explored by SpecAppend.
AppReads == 6
\* Edges delivered and clock ticks explored by SpecEdges.
MaxEdges == 4
EdgeTicks == 6

\* Reads and ticks explored with the sensor task run while the logger computes.
OvReads == 4
OvTicks == 6

\* Reads and ticks explored with app_main run again (while reads remain).
ReReads == 3
ReTicks == 6

TickMod == 2 ^ TickBits
Slots == 0 .. (LOG_SIZE - 1)

VARIABLES
  tick,                \* the tick count (xTaskGetTickCountFromISR)
  last_interrupt_time, \* line 31
  xButtonSem,          \* binary semaphore: 0 empty, 1 given
  xLogMutex,           \* holder of the mutex: "none", "sensor", "logger"
  sensorSuspended,     \* sensor task suspended by vTaskSuspend
  adc_log, log_index, latest_adc,   \* lines 22-24
  spc, adc_val,        \* LightSensorTask: position and local adc_val
  lpc, buffer, copied, \* LoggerTask: position, local buffer, memcpy done
  report,              \* LoggerTask: min, max, avg, count handed to printf
  led,                 \* LED_PIN level as driven by LoggerTask
  delayPhase,          \* the sensor task within the logger's 150 ms delay
  reads, stride,       \* sensor input: number of reads, and the ramp read
  overlap,             \* scheduling input: the sensor task is also run while
                       \* the logger computes and reports
  appended,            \* history: values written by successful appends
  dropped,             \* history: number of failed mutex takes of the sensor
  accepted,            \* history: ticks of the edges the handler accepted
  edges,               \* history: ticks of the edges delivered (SpecEdges)
  isr,                 \* history: the handler's last call (SpecDebounce)
  taken,               \* history: Len(accepted) when the logger last took
  reported,            \* history: `taken` of the cycle last reported
  cycles,              \* history: number of logger cycles begun
  batches              \* history: number of groups of accepted presses

vars == << tick, last_interrupt_time, xButtonSem, xLogMutex, sensorSuspended,
           adc_log, log_index, latest_adc, spc, adc_val, lpc, buffer, copied,
           report, led, delayPhase, reads, stride, overlap, appended, dropped, accepted, edges,
           isr, taken, reported, cycles, batches >>

isrVars    == << last_interrupt_time, xButtonSem >>
logVars    == << adc_log, log_index >>
sensorVars == << spc, adc_val, latest_adc, reads, appended, dropped >>
loggerVars == << lpc, buffer, copied, report, led, taken, reported, cycles >>
pressHist  == << accepted, edges, isr, batches >>

ZeroLog == [i \in Slots |-> 0]
NoReport == [min |-> 0, max |-> 0, avg |-> 0, count |-> 0, sum |-> 0]
NoCall == [called |-> FALSE, now |-> 0, last |-> 0, sem |-> 0]

\* ------------------------------------------------------------ sensor input
Strides == {1, 67}
\* The k-th value read from the sensor: a ramp of distinct 12-bit values.
adc1_get_raw(k) == (k * stride) % (ADC_MAX + 1)

\* ------------------------------------------------------- interrupt handler
\* (now - last_interrupt_time) * portTICK_PERIOD_MS in TickType_t arithmetic
ElapsedMs(now, last) == (((now - last) % TickMod) * portTICK_PERIOD_MS) % TickMod

DebounceAccepts(now, last) == ElapsedMs(now, last) >= DEBOUNCE_MS

\* Variants of the give: one that counts the gives, one that gives nothing.
GiveCounting(s) == s + 1
GiveNothing(s) == s

\* xSemaphoreGiveFromISR on a binary semaphore: a give to a full one fails.
xSemaphoreGiveFromISR(s) == IF s = 0 THEN 1 ELSE s

\* Variant of the handler: resuming the sensor task on an accepted edge.
IsrResuming(rec) ==
  /\ rec => Len(edges) < MaxEdges
  /\ IF DebounceAccepts(tick, last_interrupt_time)
       THEN /\ last_interrupt_time' = tick
            /\ xButtonSem' = 1
            /\ accepted' = Append(accepted, tick)
            /\ batches' = IF Len(accepted) = taken THEN batches + 1 ELSE batches
            /\ sensorSuspended' = FALSE
       ELSE /\ UNCHANGED isrVars
            /\ UNCHANGED << accepted, batches, sensorSuspended >>
  /\ edges' = IF rec THEN Append(edges, tick) ELSE edges
  /\ isr' = IF rec
              THEN [called |-> TRUE, now |-> tick, last |-> last_interrupt_time,
                    sem |-> xButtonSem]
              ELSE isr
  /\ UNCHANGED << tick, xLogMutex, stride, overlap, delayPhase >>
  /\ UNCHANGED logVars
  /\ UNCHANGED sensorVars
  /\ UNCHANGED loggerVars

\* One call of button_isr_handler; rec says whether the delivered edge and
\* the call are recorded in the histories `edges` and `isr`.
button_isr_handler(rec) ==
  LET now == tick IN
  /\ rec => Len(edges) < MaxEdges
  /\ IF DebounceAccepts(now, last_interrupt_time)
       THEN /\ last_interrupt_time' = now
            /\ xButtonSem' = xSemaphoreGiveFromISR(xButtonSem)
            /\ accepted' = Append(accepted, now)
            /\ batches' = IF Len(accepted) = taken THEN batches + 1 ELSE batches
       ELSE /\ UNCHANGED isrVars
            /\ UNCHANGED << accepted, batches >>
  /\ edges' = IF rec THEN Append(edges, now) ELSE edges
  /\ isr' = IF rec
              THEN [called |-> TRUE, now |-> now, last |-> last_interrupt_time,
                    sem |-> xButtonSem]
              ELSE isr
  /\ UNCHANGED << tick, xLogMutex, sensorSuspended, stride, overlap, delayPhase >>
  /\ UNCHANGED logVars
  /\ UNCHANGED sensorVars
  /\ UNCHANGED loggerVars

\* The tick interrupt, explored up to maxTick.
TickIncrement(maxTick) ==
  /\ tick < maxTick
  /\ tick' = (tick + 1) % TickMod
  /\ UNCHANGED << xLogMutex, sensorSuspended, stride, overlap, delayPhase >>
  /\ UNCHANGED isrVars
  /\ UNCHANGED logVars
  /\ UNCHANGED sensorVars
  /\ UNCHANGED loggerVars
  /\ UNCHANGED pressHist

\* ------------------------------------------------------------- scheduling
\* The logger (priority 3) is blocked: in xSemaphoreTake(xButtonSem) with
\* nothing given, in vTaskDelay, or in xSemaphoreTake(xLogMutex) on a held
\* mutex.
LoggerBlocked ==
  \/ lpc = "wait" /\ xButtonSem = 0
  \/ lpc = "delay"
  \/ lpc = "takemutex" /\ xLogMutex # "none"

\* The logger is between the resume and the end of its printf (lines
\* 110-125), where it blocks nowhere; `overlap` lets the sensor task be run
\* there all the same.
LoggerComputing == overlap /\ lpc \in {"compute", "report"}

\* The sensor task (priority 2, same core) executes.
SensorRuns == ~sensorSuspended /\ (LoggerBlocked \/ LoggerComputing)

\* The 200 ms sleep of the sensor task (line 80) against the 150 ms delay of
\* the logger (line 91).  delayPhase is set when the delay begins: "busy" if
\* the sensor task is in a cycle, which it finishes before the delay ends,
\* becoming "done"; "idle" if it sleeps, and then its sleep can end once
\* within the delay ("woke"), in which case the end of the delay can find it
\* anywhere in that cycle.  A sleep begun within the delay outlasts it.
ReachedSleep(phase) == IF phase = "busy" THEN "done" ELSE phase

SleepCanEnd == lpc = "delay" => delayPhase = "idle"

\* --------------------------------------------------------- LightSensorTask
\* Variant of the advance: wrapping one slot early.
NextIndexShort(i) == (i + 1) % (LOG_SIZE - 1)

\* line 76
NextIndex(i) == (i + 1) % LOG_SIZE

\* Variant of the failed take: taking again.
RetryTake == "take"

\* Where the loop goes when xSemaphoreTake(xLogMutex, 10 ms) returns false
\* (lines 74, 78-80).
AfterFailedTake == "sleep"

\* Variant of the read: latest_adc left as it is.
SensorReadQuiet ==
  /\ SensorRuns /\ spc = "read"
  /\ adc_val' = adc1_get_raw(reads)
  /\ reads' = reads + 1
  /\ spc' = "take"
  /\ UNCHANGED << tick, xLogMutex, sensorSuspended, stride, overlap, delayPhase,
                  latest_adc, appended, dropped >>
  /\ UNCHANGED isrVars
  /\ UNCHANGED logVars
  /\ UNCHANGED loggerVars
  /\ UNCHANGED pressHist

\* lines 69-72
SensorRead ==
  /\ SensorRuns /\ spc = "read"
  /\ adc_val' = adc1_get_raw(reads)
  /\ latest_adc' = adc_val'
  /\ reads' = reads + 1
  /\ spc' = "take"
  /\ UNCHANGED << tick, xLogMutex, sensorSuspended, stride, overlap, delayPhase, appended, dropped >>
  /\ UNCHANGED isrVars
  /\ UNCHANGED logVars
  /\ UNCHANGED loggerVars
  /\ UNCHANGED pressHist

\* line 74: ok is the result of xSemaphoreTake(xLogMutex, pdMS_TO_TICKS(10))
SensorTake(ok) ==
  /\ SensorRuns /\ spc = "take"
  /\ IF ok
       THEN /\ xLogMutex' = "sensor"
            /\ spc' = "write"
            /\ UNCHANGED dropped
            /\ UNCHANGED delayPhase
       ELSE /\ spc' = AfterFailedTake
            /\ dropped' = dropped + 1
            /\ delayPhase' = ReachedSleep(delayPhase)
            /\ UNCHANGED xLogMutex
  /\ UNCHANGED << tick, sensorSuspended, stride, overlap, adc_val, latest_adc, reads,
                  appended >>
  /\ UNCHANGED isrVars
  /\ UNCHANGED logVars
  /\ UNCHANGED loggerVars
  /\ UNCHANGED pressHist

\* line 75 (adc_log is uint16_t)
SensorWrite ==
  /\ SensorRuns /\ spc = "write"
  /\ adc_log' = [adc_log EXCEPT ![log_index] = adc_val % (UINT16_MAX + 1)]
  /\ spc' = "advance"
  /\ UNCHANGED << tick, xLogMutex, sensorSuspended, stride, overlap, delayPhase, log_index, adc_val,
                  latest_adc, reads, appended, dropped >>
  /\ UNCHANGED isrVars
  /\ UNCHANGED loggerVars
  /\ UNCHANGED pressHist

\* line 76
SensorAdvance ==
  /\ SensorRuns /\ spc = "advance"
  /\ log_index' = NextIndex(log_index)
  /\ appended' = Append(appended, adc_val)
  /\ spc' = "give"
  /\ UNCHANGED << tick, xLogMutex, sensorSuspended, stride, overlap, delayPhase, adc_log, adc_val,
                  latest_adc, reads, dropped >>
  /\ UNCHANGED isrVars
  /\ UNCHANGED loggerVars
  /\ UNCHANGED pressHist

\* line 77
SensorGive ==
  /\ SensorRuns /\ spc = "give"
  /\ xLogMutex' = "none"
  /\ spc' = "sleep"
  /\ delayPhase' = ReachedSleep(delayPhase)
  /\ UNCHANGED << tick, sensorSuspended, stride, overlap, adc_val, latest_adc, reads,
                  appended, dropped >>
  /\ UNCHANGED isrVars
  /\ UNCHANGED logVars
  /\ UNCHANGED loggerVars
  /\ UNCHANGED pressHist

\* line 80: vTaskDelay(200 ms) ends and the loop starts over; explored up to
\* maxReads reads.
SensorWake(maxReads) ==
  /\ SensorRuns /\ spc = "sleep"
  /\ reads < maxReads
  /\ SleepCanEnd
  /\ spc' = "read"
  /\ delayPhase' = IF lpc = "delay" THEN "woke" ELSE delayPhase
  /\ UNCHANGED << tick, xLogMutex, sensorSuspended, stride, overlap, adc_val, latest_adc,
                  reads, appended, dropped >>
  /\ UNCHANGED isrVars
  /\ UNCHANGED logVars
  /\ UNCHANGED loggerVars
  /\ UNCHANGED pressHist

\* -------------------------------------------------------------- LoggerTask
\* What the local `buffer` (line 100, never initialised) can hold when the
\* memcpy of line 102 is skipped: any stack content; three are explored.
UninitBuffers ==
  { [i \in Slots |-> 0], [i \in Slots |-> UINT16_MAX], [i \in Slots |-> ADC_MAX - i] }

\* Variant of the comparison of line 118: counting the threshold itself.
AtOrOverThreshold(val) == val >= LIGHT_THRESHOLD

\* line 118
OverThreshold(val) == val > LIGHT_THRESHOLD

\* lines 116-119, one pass of the loop body on val

ScanStep(acc, val) ==
  [ min   |-> IF val < acc.min THEN val ELSE acc.min,
    max   |-> IF val > acc.max THEN val ELSE acc.max,
    count |-> IF OverThreshold(val) THEN acc.count + 1 ELSE acc.count,
    sum   |-> acc.sum + val,          \* uint32_t: 50 * 65535 does not wrap
    avg   |-> 0 ]

\* lines 114-120: passes lo .. hi-1 of the loop, applied to the accumulators
\* (each pass is evaluated once, on the value the pass before it left)
RECURSIVE Scan(_, _, _, _)
Scan(buf, lo, hi, acc) ==
  IF hi = lo
    THEN acc
    ELSE CHOOSE r \in { ScanStep(a, buf[hi - 1]) : a \in { Scan(buf, lo, hi - 1, acc) } } : TRUE

\* The same passes, evaluated ten at a time so that the evaluation of the
\* whole loop does not nest LOG_SIZE deep.
RECURSIVE ScanFrom(_, _, _)
ScanFrom(buf, lo, acc) ==
  IF lo >= LOG_SIZE
    THEN acc
    ELSE LET hi == IF lo + 10 < LOG_SIZE THEN lo + 10 ELSE LOG_SIZE
         IN  CHOOSE r \in { ScanFrom(buf, hi, a) : a \in { Scan(buf, lo, hi, acc) } } : TRUE

\* line 122: uint16_t avg = sum / LOG_SIZE
Average(sum) == (sum \div LOG_SIZE) % (UINT16_MAX + 1)

\* lines 110-122
Statistics(buf) ==
  LET acc == ScanFrom(buf, 0, [min |-> ADC_MAX, max |-> 0, count |-> 0,
                               sum |-> 0, avg |-> 0])
  IN  [acc EXCEPT !.avg = Average(acc.sum)]

\* Variant of the take: leaving the semaphore as it is.
TakeKeeps(s) == s

\* xSemaphoreTake on a semaphore that is given.
xSemaphoreTake(s) == s - 1

\* line 87: xSemaphoreTake(xButtonSem, portMAX_DELAY) returns
LoggerTakeButton ==
  /\ lpc = "wait" /\ xButtonSem >= 1
  /\ xButtonSem' = xSemaphoreTake(xButtonSem)
  /\ lpc' = "ack"
  /\ taken' = Len(accepted)
  /\ cycles' = cycles + 1
  /\ UNCHANGED << tick, last_interrupt_time, xLogMutex, sensorSuspended, stride, overlap, delayPhase,
                  buffer, copied, report, led, reported >>
  /\ UNCHANGED logVars
  /\ UNCHANGED sensorVars
  /\ UNCHANGED pressHist

\* lines 90-91: LED on, vTaskDelay(150 ms) entered
LoggerAck ==
  /\ lpc = "ack"
  /\ led' = 1
  /\ lpc' = "delay"
  /\ delayPhase' = IF spc = "sleep" THEN "idle" ELSE "busy"
  /\ UNCHANGED << tick, xLogMutex, sensorSuspended, stride, overlap, buffer, copied,
                  report, taken, reported, cycles >>
  /\ UNCHANGED isrVars
  /\ UNCHANGED logVars
  /\ UNCHANGED sensorVars
  /\ UNCHANGED pressHist

\* Variant of the end of the delay: on to the mutex, the sensor task running.
DelayDoneNoPause ==
  /\ lpc = "delay" /\ delayPhase # "busy"
  /\ led' = 0
  /\ lpc' = "takemutex"
  /\ delayPhase' = "idle"
  /\ UNCHANGED << tick, xLogMutex, sensorSuspended, stride, overlap, buffer,
                  copied, report, taken, reported, cycles >>
  /\ UNCHANGED isrVars
  /\ UNCHANGED logVars
  /\ UNCHANGED sensorVars
  /\ UNCHANGED pressHist

\* lines 91-94: the delay ends, LED off, printf
LoggerDelayDone ==
  /\ lpc = "delay" /\ delayPhase # "busy"
  /\ led' = 0
  /\ lpc' = "suspend"
  /\ delayPhase' = "idle"
  /\ UNCHANGED << tick, xLogMutex, sensorSuspended, stride, overlap, buffer, copied,
                  report, taken, reported, cycles >>
  /\ UNCHANGED isrVars
  /\ UNCHANGED logVars
  /\ UNCHANGED sensorVars
  /\ UNCHANGED pressHist

\* lines 96-98: sensorTaskHandle was set at line 152, before this task exists
LoggerSuspend ==
  /\ lpc = "suspend"
  /\ sensorSuspended' = TRUE
  /\ lpc' = "takemutex"
  /\ UNCHANGED << tick, xLogMutex, stride, overlap, delayPhase, buffer, copied, report, led, taken,
                  reported, cycles >>
  /\ UNCHANGED isrVars
  /\ UNCHANGED logVars
  /\ UNCHANGED sensorVars
  /\ UNCHANGED pressHist

\* Variant of the take: succeeding whoever holds the mutex.
LoggerTakeHeld ==
  /\ lpc = "takemutex"
  /\ xLogMutex' = "logger"
  /\ lpc' = "copy"
  /\ UNCHANGED << tick, sensorSuspended, stride, overlap, delayPhase, buffer,
                  copied, report, led, taken, reported, cycles >>
  /\ UNCHANGED isrVars
  /\ UNCHANGED logVars
  /\ UNCHANGED sensorVars
  /\ UNCHANGED pressHist

\* line 101: xSemaphoreTake(xLogMutex, 50 ms) returns true
LoggerTakeMutex ==
  /\ lpc = "takemutex" /\ xLogMutex = "none"
  /\ xLogMutex' = "logger"
  /\ lpc' = "copy"
  /\ UNCHANGED << tick, sensorSuspended, stride, overlap, delayPhase, buffer, copied, report, led,
                  taken, reported, cycles >>
  /\ UNCHANGED isrVars
  /\ UNCHANGED logVars
  /\ UNCHANGED sensorVars
  /\ UNCHANGED pressHist

\* Variant of the timeout: on to the statistics, the resume left out.
TimeoutSkipsResume ==
  /\ lpc = "takemutex" /\ xLogMutex = "sensor" /\ sensorSuspended
  /\ buffer' \in UninitBuffers
  /\ lpc' = "compute"
  /\ UNCHANGED << tick, xLogMutex, sensorSuspended, stride, overlap, delayPhase,
                  copied, report, led, taken, reported, cycles >>
  /\ UNCHANGED isrVars
  /\ UNCHANGED logVars
  /\ UNCHANGED sensorVars
  /\ UNCHANGED pressHist

\* line 101: the holder is the suspended sensor task, which cannot give the
\* mutex back, so the 50 ms pass and xSemaphoreTake returns false; lines
\* 102-103 are skipped and `buffer` keeps its indeterminate content.
LoggerTakeTimeout ==
  /\ lpc = "takemutex" /\ xLogMutex = "sensor" /\ sensorSuspended
  /\ buffer' \in UninitBuffers
  /\ lpc' = "resume"
  /\ UNCHANGED << tick, xLogMutex, sensorSuspended, stride, overlap, delayPhase, copied, report, led,
                  taken, reported, cycles >>
  /\ UNCHANGED isrVars
  /\ UNCHANGED logVars
  /\ UNCHANGED sensorVars
  /\ UNCHANGED pressHist

\* line 102
LoggerCopy ==
  /\ lpc = "copy"
  /\ buffer' = adc_log
  /\ copied' = TRUE
  /\ lpc' = "give"
  /\ UNCHANGED << tick, xLogMutex, sensorSuspended, stride, overlap, delayPhase, report, led, taken,
                  reported, cycles >>
  /\ UNCHANGED isrVars
  /\ UNCHANGED logVars
  /\ UNCHANGED sensorVars
  /\ UNCHANGED pressHist

\* Variant of the give: the logger keeps the mutex.
LoggerKeepsMutex ==
  /\ lpc = "give"
  /\ lpc' = "resume"
  /\ UNCHANGED << tick, xLogMutex, sensorSuspended, stride, overlap, delayPhase,
                  buffer, copied, report, led, taken, reported, cycles >>
  /\ UNCHANGED isrVars
  /\ UNCHANGED logVars
  /\ UNCHANGED sensorVars
  /\ UNCHANGED pressHist

\* line 103
LoggerGive ==
  /\ lpc = "give"
  /\ xLogMutex' = "none"
  /\ lpc' = "resume"
  /\ UNCHANGED << tick, sensorSuspended, stride, overlap, delayPhase, buffer, copied, report, led,
                  taken, reported, cycles >>
  /\ UNCHANGED isrVars
  /\ UNCHANGED logVars
  /\ UNCHANGED sensorVars
  /\ UNCHANGED pressHist

\* Variant of the resume: the task stays suspended.
ResumeSkipped == TRUE

\* What vTaskResume(sensorTaskHandle) makes of the suspended flag.
vTaskResume == FALSE

\* lines 106-108
LoggerResume ==
  /\ lpc = "resume"
  /\ sensorSuspended' = vTaskResume
  /\ lpc' = "compute"
  /\ UNCHANGED << tick, xLogMutex, stride, overlap, delayPhase, buffer, copied, report, led, taken,
                  reported, cycles >>
  /\ UNCHANGED isrVars
  /\ UNCHANGED logVars
  /\ UNCHANGED sensorVars
  /\ UNCHANGED pressHist

\* Variant of the computation: on the log itself, the buffer being a view.
LoggerComputeView ==
  /\ lpc = "compute"
  /\ report' = Statistics(adc_log)
  /\ lpc' = "report"
  /\ UNCHANGED << tick, xLogMutex, sensorSuspended, stride, overlap, delayPhase,
                  buffer, copied, led, taken, reported, cycles >>
  /\ UNCHANGED isrVars
  /\ UNCHANGED logVars
  /\ UNCHANGED sensorVars
  /\ UNCHANGED pressHist

\* lines 110-122
LoggerCompute ==
  /\ lpc = "compute"
  /\ report' = Statistics(buffer)
  /\ lpc' = "report"
  /\ UNCHANGED << tick, xLogMutex, sensorSuspended, stride, overlap, delayPhase, buffer, copied, led,
                  taken, reported, cycles >>
  /\ UNCHANGED isrVars
  /\ UNCHANGED logVars
  /\ UNCHANGED sensorVars
  /\ UNCHANGED pressHist

\* lines 124-126: printf, end of the loop body (buffer and the statistics go
\* out of scope)
LoggerReport ==
  /\ lpc = "report"
  /\ lpc' = "wait"
  /\ buffer' = ZeroLog
  /\ copied' = FALSE
  /\ report' = NoReport
  /\ reported' = taken
  /\ UNCHANGED << tick, xLogMutex, sensorSuspended, stride, overlap, delayPhase, led, taken, cycles >>
  /\ UNCHANGED isrVars
  /\ UNCHANGED logVars
  /\ UNCHANGED sensorVars
  /\ UNCHANGED pressHist

\* ------------------------------------------------------------ specification
\* The state when app_main has returned (lines 22-31, 130-155): the tick
\* count in T, last_interrupt_time in L, the sensor reading a ramp of a
\* stride in S, the log holding a content in B, the logger at position pc
\* (with the log copied into its buffer when it is about to compute).
InitAt(T, L, S, B, pc, ov) ==
  /\ tick \in T
  /\ last_interrupt_time \in L
  /\ xButtonSem = 0
  /\ xLogMutex = "none"
  /\ sensorSuspended = FALSE
  /\ adc_log \in B
  /\ log_index = 0
  /\ latest_adc = 0
  /\ spc = "read"
  /\ adc_val = 0
  /\ lpc = pc
  /\ buffer = IF pc = "compute" THEN adc_log ELSE ZeroLog
  /\ copied = (pc = "compute")
  /\ report = NoReport
  /\ led = 0
  /\ delayPhase = "idle"
  /\ reads = 0
  /\ stride \in S
  /\ overlap = ov
  /\ appended = << >>
  /\ dropped = 0
  /\ accepted = << >>
  /\ edges = << >>
  /\ isr = NoCall
  /\ taken = 0
  /\ reported = 0
  /\ cycles = 0
  /\ batches = 0

\* The tasks as app_main creates them: the sensor task runs only while the
\* logger is blocked.
InitWith(T, L, S, B, pc) == InitAt(T, L, S, B, pc, FALSE)

Init == InitWith({0}, {0}, Strides, {ZeroLog}, "wait")

SensorStep(maxReads) ==
  \/ SensorRead
  \/ SensorTake(xLogMutex = "none")
  \/ SensorWrite
  \/ SensorAdvance
  \/ SensorGive
  \/ SensorWake(maxReads)

LoggerStep ==
  \/ LoggerTakeButton
  \/ LoggerAck
  \/ LoggerDelayDone
  \/ LoggerSuspend
  \/ LoggerTakeMutex
  \/ LoggerTakeTimeout
  \/ LoggerCopy
  \/ LoggerGive
  \/ LoggerResume
  \/ LoggerCompute
  \/ LoggerReport

Next ==
  \/ TickIncrement(MaxTick)
  \/ button_isr_handler(FALSE)
  \/ SensorStep(MaxReads)
  \/ LoggerStep

Spec == Init /\ [][Next]_vars

\* The same system explored for more ticks (several presses) and fewer reads.
NextEvent ==
  \/ TickIncrement(EvTicks)
  \/ button_isr_handler(FALSE)
  \/ SensorStep(EvReads)
  \/ LoggerStep

SpecEvent == InitWith({0}, {0}, {1}, {ZeroLog}, "wait") /\ [][NextEvent]_vars

\* The logger has the highest priority on its core: it runs whenever it is
\* ready, and its delay and its timed mutex wait end.  The sensor task runs
\* whenever the logger stays blocked.
NextFair ==
  \/ TickIncrement(FairTicks)
  \/ button_isr_handler(FALSE)
  \/ SensorStep(FairReads)
  \/ LoggerStep

FairSpec ==
  /\ InitWith({0}, {0}, {1}, {ZeroLog}, "wait")
  /\ [][NextFair]_vars
  /\ WF_vars(LoggerStep)
  /\ WF_vars(SensorStep(FairReads))

\* The sensor loop with the result of xSemaphoreTake(xLogMutex, 10 ms) taken
\* as an input: true only if the mutex is free, false at will.
SensorStepAny(maxReads) ==
  \/ SensorRead
  \/ \E ok \in BOOLEAN : SensorTake(ok /\ xLogMutex = "none")
  \/ SensorWrite
  \/ SensorAdvance
  \/ SensorGive
  \/ SensorWake(maxReads)

NextAppend ==
  \/ TickIncrement(MaxTick)
  \/ button_isr_handler(FALSE)
  \/ SensorStepAny(AppReads)
  \/ LoggerStep

SpecAppend == InitWith({0}, {0}, {1}, {ZeroLog}, "wait") /\ [][NextAppend]_vars

\* The interrupt handler alone, called at every tick count and every
\* last_interrupt_time of the counter's range.
Ticks == 0 .. (TickMod - 1)

SpecDebounce ==
  InitWith(Ticks, Ticks, {1}, {ZeroLog}, "wait") /\ [][button_isr_handler(TRUE)]_vars

\* The interrupt handler and the clock from start-up, the delivered edges
\* recorded.
NextEdges ==
  \/ TickIncrement(EdgeTicks)
  \/ button_isr_handler(TRUE)

SpecEdges == InitWith({0}, {0}, {1}, {ZeroLog}, "wait") /\ [][NextEdges]_vars

\* The statistics of lines 110-125 on snapshots of k samples a followed by
\* LOG_SIZE - k samples b.
StatValues == {0, 2, 3, 100, 3000, 3001, 3100, ADC_MAX}

StatBuffers ==
  { [i \in Slots |-> IF i < k THEN a ELSE b] :
      k \in 0 .. LOG_SIZE, a \in StatValues, b \in StatValues }

NextStats ==
  \/ LoggerCompute
  \/ LoggerReport

SpecStats == InitWith({0}, {0}, {1}, StatBuffers, "compute") /\ [][NextStats]_vars

\* The same system with the sensor task also run while the logger computes
\* and reports (lines 110-125), a scheduling taken as an input.
NextOverlap ==
  \/ TickIncrement(OvTicks)
  \/ button_isr_handler(FALSE)
  \/ SensorStep(OvReads)
  \/ LoggerStep

SpecOverlap ==
  InitAt({0}, {0}, {1}, {ZeroLog}, "wait", TRUE) /\ [][NextOverlap]_vars

\* app_main (lines 130-155) run again: a new, empty binary semaphore and a
\* new, free mutex (133-134), the LED pin reset (137), new tasks at the top
\* of their loops with sensorTaskHandle naming the new sensor task (152-153);
\* the tasks of the earlier run are taken to be gone.  No statement of
\* app_main assigns adc_log, log_index, latest_adc or last_interrupt_time.
\* Explored while fewer than maxReads reads were made.
app_main(maxReads) ==
  /\ reads < maxReads
  /\ xButtonSem' = 0
  /\ xLogMutex' = "none"
  /\ led' = 0
  /\ sensorSuspended' = FALSE
  /\ spc' = "read"
  /\ adc_val' = 0
  /\ lpc' = "wait"
  /\ buffer' = ZeroLog
  /\ copied' = FALSE
  /\ report' = NoReport
  /\ delayPhase' = "idle"
  /\ UNCHANGED << tick, last_interrupt_time, latest_adc, stride, overlap,
                  reads, appended, dropped, taken, reported, cycles >>
  /\ UNCHANGED logVars
  /\ UNCHANGED pressHist

NextRestart ==
  \/ TickIncrement(ReTicks)
  \/ button_isr_handler(FALSE)
  \/ SensorStep(ReReads)
  \/ LoggerStep
  \/ app_main(ReReads)

SpecRestart == InitWith({0}, {0}, {1}, {ZeroLog}, "wait") /\ [][NextRestart]_vars

\* ==================================================================== claims
Range(q) == { q[j] : j \in 1 .. Len(q) }
MsToTicks(ms) == ms \div portTICK_PERIOD_MS
\* Numbers of presses that can be accepted within the ticks FairSpec explores.
Presses == 1 .. (FairTicks \div MsToTicks(DEBOUNCE_MS))

\* C1: in every logger cycle the snapshot the statistics are computed from
\* equals the log as it stands while the sensor task is paused, and once
\* LOG_SIZE values have been appended every snapshot value is one of the
\* appended values.
C1_SnapshotConsistent ==
  /\ lpc = "resume" => buffer = adc_log
  /\ (lpc \in {"resume", "compute", "report"} /\ Len(appended) >= LOG_SIZE)
       => \A i \in Slots : buffer[i] \in Range(appended)

\* C2: log_index stays in 0 .. LOG_SIZE-1 and equals the number of appends
\* modulo LOG_SIZE; once LOG_SIZE values have been appended (and no append
\* is half done) the log holds the last LOG_SIZE appended values, the oldest
\* at log_index and the newest just before it.
C2_RingBuffer ==
  /\ log_index \in Slots
  /\ log_index = Len(appended) % LOG_SIZE
  /\ (Len(appended) >= LOG_SIZE /\ spc # "advance")
       => \A j \in Slots :
            adc_log[(log_index + j) % LOG_SIZE]
              = appended[Len(appended) - LOG_SIZE + j + 1]

\* Appending 0..59 leaves 10..59, with 10 at slot 10 and 50..59 in slots 0..9.
C2_Witness ==
  /\ stride = 1 /\ Len(appended) = 60 /\ spc = "sleep"
  /\ log_index = 10 /\ adc_log[10] = 10 /\ adc_log[49] = 49
  /\ adc_log[0] = 50 /\ adc_log[9] = 59

\* C3: every accepted press is followed by a report of a logger cycle that
\* took the semaphore after that press was signalled.
C3_PressReported ==
  \A n \in Presses : (Len(accepted) >= n) ~> (reported >= n)

\* Two presses have been reported, by cycles begun after each.
C3_Witness == reported = 2 /\ cycles = 2 /\ lpc = "wait"

\* C4: a call of the handler discards the edge, leaving last_interrupt_time
\* and the semaphore as they were, if less than DEBOUNCE_MS have passed since
\* last_interrupt_time, and otherwise sets last_interrupt_time to now and
\* leaves the semaphore given; accepted edges are DEBOUNCE_MS apart.
C4_DebounceRule ==
  /\ isr.called =>
       IF ((isr.now - isr.last) % TickMod) * portTICK_PERIOD_MS < DEBOUNCE_MS
         THEN last_interrupt_time = isr.last /\ xButtonSem = isr.sem
         ELSE last_interrupt_time = isr.now /\ xButtonSem = 1
  /\ \A j \in 1 .. (Len(accepted) - 1) :
       ((accepted[j + 1] - accepted[j]) % TickMod) * portTICK_PERIOD_MS
         >= DEBOUNCE_MS

\* C5: from start-up, edges at 0, 10, 40 and 60 ms are accepted at 0 and 60 ms
\* only, and edges at 0, 60 and 65 ms are accepted at 0 and 60 ms only.
C5_Scenarios ==
  /\ edges = << MsToTicks(0), MsToTicks(10), MsToTicks(40), MsToTicks(60) >>
       => accepted = << MsToTicks(0), MsToTicks(60) >>
  /\ edges = << MsToTicks(0), MsToTicks(60), MsToTicks(65) >>
       => accepted = << MsToTicks(0), MsToTicks(60) >>

\* C6: the semaphore is empty or given, it is given exactly when at least one
\* press has been accepted since the logger last took it, however many, and
\* the logger begins one cycle for each such group of presses.
C6_SingleSlot ==
  /\ xButtonSem \in {0, 1}
  /\ (xButtonSem = 1) <=> (Len(accepted) > taken)
  /\ cycles + xButtonSem = batches

\* Two presses were accepted before the logger took the semaphore, and one
\* cycle was begun for them.
C6_Witness == cycles = 1 /\ taken = 2 /\ Len(accepted) = 2 /\ xButtonSem = 0

SampleSum(buf) ==
  LET vals == { buf[i] : i \in Slots }
      n(v) == Cardinality({ i \in Slots : buf[i] = v })
      total[S \in SUBSET vals] ==
        IF S = {} THEN 0
        ELSE LET v == CHOOSE x \in S : TRUE IN v * n(v) + total[S \ {v}]
  IN  total[vals]

C8_Statistics ==
  (lpc = "report" /\ \A i \in Slots : buffer[i] \in 0 .. ADC_MAX)
    => /\ \E i \in Slots : report.min = buffer[i]
       /\ \A i \in Slots : report.min <= buffer[i]
       /\ \E i \in Slots : report.max = buffer[i]
       /\ \A i \in Slots : report.max >= buffer[i]
       /\ report.count = Cardinality({ i \in Slots : buffer[i] > 3000 })
       /\ report.avg * LOG_SIZE <= SampleSum(buffer)
       /\ SampleSum(buffer) < (report.avg + 1) * LOG_SIZE

\* 49 samples of 3100 and one of 100: min 100, max 3100, 49 above, average 3040.
C8_Witness ==
  /\ lpc = "report"
  /\ Cardinality({ i \in Slots : buffer[i] = 3100 }) = 49
  /\ Cardinality({ i \in Slots : buffer[i] = 100 }) = 1
  /\ report.min = 100 /\ report.max = 3100 /\ report.count = 49
  /\ report.avg = 3040

\* C9: when the sensor task's take of the mutex fails, the log and its index
\* stay as they are and the task goes to its sleep without another take;
\* every read leads to one take, which appends or drops, so the next cycle
\* takes afresh.
C9_DropOnTimeout ==
  /\ [][dropped' # dropped
          => /\ spc = "take" /\ spc' = "sleep"
             /\ adc_log' = adc_log /\ log_index' = log_index
             /\ appended' = appended]_vars
  /\ [](Len(appended) + dropped
          + (IF spc \in {"take", "write", "advance"} THEN 1 ELSE 0) = reads)

\* After a dropped sample, a later cycle holds the mutex for its own append.
C9_Witness == dropped >= 1 /\ spc = "write" /\ Len(appended) + dropped + 1 = reads

\* C10: the sensor task always reaches its sleep, a suspension of it always
\* ends, and the logger always returns to its wait for the semaphore.
C10_NoDeadlock ==
  /\ (spc # "sleep") ~> (spc = "sleep")
  /\ sensorSuspended ~> ~sensorSuspended
  /\ (lpc # "wait") ~> (lpc = "wait")

\* The logger waits for the mutex while the suspended sensor task holds it.
C10_Witness == lpc = "takemutex" /\ sensorSuspended /\ xLogMutex = "sensor"

\* C11: no step of the logger changes adc_log or log_index; a step that
\* changes the log leaves the logger's buffer and statistics as they are, and
\* the statistics reported are those of the buffer as it was copied.
C11_LogUntouched ==
  /\ [][LoggerStep => UNCHANGED logVars]_vars
  /\ [][(adc_log' # adc_log \/ log_index' # log_index)
          => UNCHANGED << buffer, report >>]_vars
  /\ [](lpc = "report" /\ copied => report = Statistics(buffer))

\* An append came after the copy: the logger is about to report, and the log
\* differs from its buffer.
C11_Witness ==
  /\ lpc = "report" /\ copied
  /\ buffer # adc_log
  /\ report = Statistics(buffer)
  /\ report # Statistics(adc_log)

\* C12: running app_main again leaves log_index at 0, latest_adc at 0 and
\* no debounce state of the earlier run (last_interrupt_time at 0).
C12_Reinit ==
  [][app_main(ReReads) => (log_index' = 0 /\ latest_adc' = 0
                             /\ last_interrupt_time' = 0)]_vars

\* C13: the sensor task is between its take and its give only as the holder
\* of xLogMutex, the logger is at its memcpy only as the holder, so the two
\* never overlap; the log changes only in steps of the holding sensor task,
\* never while the logger copies, and the copy is made by the holding logger.
C13_MutualExclusion ==
  /\ [](spc \in {"write", "advance", "give"} => xLogMutex = "sensor")
  /\ [](lpc \in {"copy", "give"} => xLogMutex = "logger")
  /\ [](lpc = "copy" => spc \notin {"write", "advance", "give"})
  /\ [][lpc = "copy" => UNCHANGED logVars]_vars
  /\ [][(adc_log' # adc_log \/ log_index' # log_index)
          => (xLogMutex = "sensor" /\ xLogMutex' = "sensor")]_vars
  /\ [][(copied' /\ ~copied) => (xLogMutex = "logger" /\ buffer' = adc_log)]_vars

\* The logger copies a log that holds samples while the sensor task, paused
\* just before its take, waits to append the next one.
C13_Witness ==
  /\ lpc = "give" /\ copied /\ buffer = adc_log
  /\ spc = "take" /\ sensorSuspended
  /\ Len(appended) >= 2

\* C14: the logger moves through its cycle in one order: take the event
\* (consuming it), LED on and delay, LED off, suspend the sensor task,
\* request the mutex, copy and give it back (or, the request timing out,
\* neither), resume the sensor task, compute, report, wait again.  The
\* sensor task is suspended when the mutex is requested, it is resumed only
\* when the logger no longer holds the mutex, and the statistics are
\* computed only when it has been resumed.
CycleOrder ==
  { << "wait", "ack" >>, << "ack", "delay" >>, << "delay", "suspend" >>,
    << "suspend", "takemutex" >>, << "takemutex", "copy" >>,
    << "copy", "give" >>, << "give", "resume" >>, << "takemutex", "resume" >>,
    << "resume", "compute" >>, << "compute", "report" >>,
    << "report", "wait" >> }

C16_HandlerFrame ==
  /\ [][button_isr_handler(FALSE)
          => UNCHANGED << adc_log, log_index, latest_adc, xLogMutex,
                          sensorSuspended, spc, lpc, buffer, tick >>]_vars
  /\ [][(last_interrupt_time' # last_interrupt_time \/ accepted' # accepted)
          => (/\ UNCHANGED << adc_log, log_index, latest_adc, xLogMutex,
                              sensorSuspended, spc, lpc >>
              /\ last_interrupt_time' = tick
              /\ xButtonSem' = 1)]_vars
  /\ [](ENABLED button_isr_handler(FALSE))

\* The handler accepted an edge while the logger held the mutex and the
\* sensor task was suspended.
C16_Witness ==
  /\ Len(accepted) >= 2 /\ accepted[Len(accepted)] = tick
  /\ last_interrupt_time = tick /\ xButtonSem = 1
  /\ lpc = "copy" /\ xLogMutex = "logger" /\ sensorSuspended

\* C17: when the logger requests xLogMutex the suspended sensor task does
\* not hold it: the sensor task is never suspended between its take and its
\* give, and the statistics are computed only over a buffer that was copied.
C17_FreeAtRequest ==
  /\ lpc = "takemutex" => xLogMutex # "sensor"
  /\ sensorSuspended => spc \notin {"write", "advance", "give"}
  /\ lpc \in {"compute", "report"} => copied

\* C18: the logger holds xLogMutex only while the sensor task is suspended;
\* whenever the sensor task is at its take and runs, the mutex is free; no
\* take of the sensor task has failed, and every read that went past the
\* take was appended.
C18_NoDrop ==
  /\ xLogMutex = "logger" => sensorSuspended
  /\ (spc = "take" /\ SensorRuns) => xLogMutex = "none"
  /\ dropped = 0
  /\ Len(appended) = reads - (IF spc \in {"take", "write", "advance"} THEN 1 ELSE 0)

\* The sensor task took the mutex after the logger had held it in a cycle.
C18_Witness ==
  /\ spc = "write" /\ xLogMutex = "sensor"
  /\ reported >= 1 /\ reads >= 2
  /\ Len(appended) = reads - 1

\* C19: the sensor task is suspended exactly while the logger is between its
\* vTaskSuspend and its vTaskResume: not while the logger waits, acknowledges,
\* computes or reports, whether the mutex was taken or the take timed out.
C19_SuspendedWindow ==
  /\ sensorSuspended <=> lpc \in {"takemutex", "copy", "give", "resume"}
  /\ lpc \in {"wait", "ack", "delay", "suspend", "compute", "report"}
       => ~sensorSuspended

\* The take timed out, and the sensor task, still holding the mutex, has been
\* resumed before the logger computes.
C19_Witness ==
  /\ lpc = "compute" /\ ~copied
  /\ ~sensorSuspended /\ xLogMutex = "sensor"

\* C20: for every tick count and every last_interrupt_time of the counter's
\* range, the handler accepts the edge exactly when the number of ticks from
\* the one to the other, the counter's wrap past zero counted, times the tick
\* period is at least DEBOUNCE_MS.
TrueTicks(now, last) == IF now >= last THEN now - last ELSE now + TickMod - last

C20_WholeRange ==
  isr.called =>
    LET ms == TrueTicks(isr.now, isr.last) * portTICK_PERIOD_MS
        took == last_interrupt_time = isr.now /\ xButtonSem = 1
        left == last_interrupt_time = isr.last /\ xButtonSem = isr.sem
    IN  IF ms >= DEBOUNCE_MS THEN took ELSE left

====
